---- MODULE Spec2Model ----
(***************************************************************************)
(* cmgen driver (tools/cmgen/src/main.cpp): option parsing                 *)
(* (handleCommandLineArgments) and the pipeline orchestration of main.     *)
(*                                                                         *)
(* One run of the program is one behaviour.  The command line is the       *)
(* sequence args of options still to be read by getopt_long plus the       *)
(* positional argument input; the decoded file content is chosen when      *)
(* ImageDecoder::decode is called.  trace is the history of the calls main *)
(* makes into the core (with the cubemaps and the option state each call   *)
(* received), reported the history of the messages written to std::cerr.   *)
(***************************************************************************)
EXTENDS Integers, Sequences, FiniteSets, TLC

\* ------------------------------------------------------------------ bounds
MaxArgs == 2        \* options on the command line
MaxSide == 4        \* width and height of a decoded image are in 1..MaxSide

\* ------------------------------------------------------- program constants
DefaultCubemapSize == 256
DefaultDfgSize == 128
DefaultShBands == 3

\* ---------------------------------------------------------------- helpers
Max(a, b) == IF a > b THEN a ELSE b

Range(s) == {s[i] : i \in DOMAIN s}

\* n is a power of two, n >= 1 (the mathematical notion, used by the claims)
IsPow2(n) == \E k \in 0..n : 2^k = n

RECURSIVE Log2(_)
Log2(n) == IF n <= 1 THEN 0 ELSE 1 + Log2(n \div 2)

VARIABLES
    pc,               \* position of the run in main / the parser
    args,             \* options not yet returned by getopt_long
    input,            \* whether a positional argument argv[optind] is given
    potOfZero,        \* what isPOT(0) answers (utilities.h is not in the tree)
    g,                \* the g_* option globals
    num_sh_bands,     \* local of handleCommandLineArgments
    format_specified, \* local of handleCommandLineArgments
    decoded,          \* ImageDecoder::decode has been called
    inputImage,       \* its result
    images,           \* std::vector<Image> images      (ids of owned images)
    levels,           \* std::vector<Cubemap> levels    (views)
    mirrorImages,     \* std::vector<Image> mirrorImages
    mirrorLevels,     \* std::vector<Cubemap> mirrorLevels
    blurImage,        \* Image image of the extract-blur block (0 or 1 element)
    blurred,          \* Cubemap blurred of the extract-blur block
    liveImages,       \* ids of the images whose pixel buffer exists
    nextImage,        \* next image id
    trace,            \* calls into the core made so far
    reported,         \* messages written to std::cerr
    offendingRead,    \* the parser has read a --size / --extract-blur it rejects
    optsRead,         \* letters of the options the parser has read
    formatNamed,      \* the last supported format named by --format ("" : none)
    shParsed,         \* some --sh argument parsed as an integer
    shInt,            \* the last such integer
    rc                \* exit status (-1 while running)

vars == <<pc, args, input, potOfZero, g, num_sh_bands, format_specified,
          decoded, inputImage, images, levels, mirrorImages, mirrorLevels,
          blurImage, blurred, liveImages, nextImage, trace, reported,
          offendingRead, optsRead, formatNamed,
          shParsed, shInt, rc>>

parseVars == <<num_sh_bands, format_specified>>
imageVars == <<decoded, inputImage>>
heapVars  == <<images, levels, mirrorImages, mirrorLevels, blurImage, blurred,
               liveImages, nextImage>>
ghostVars == <<offendingRead, formatNamed, shParsed, shInt>>

\* ------------------------------------------------------------ command line
NoArg == {"h", "l", "q", "i", "b", "u", "d", "m", "?"}

Formats == {"png", "hdr", "rgbm", "exr", "psd", "dds"}

SizeArgs == {0, 2, 3}            \* values std::stoul returns for --size
BlurArgs == {-5, 0, 5, 15}       \* --extract-blur, in tenths
ShArgs   == {"", "abc", "0", "2"} \* --sh argument text ("" : none given)

\* an option as getopt_long returns it: its letter, optarg as text, and the
\* number std::stoul / std::stod / std::stoi reads from optarg (numeric options)
Tok(o, a, n) == [opt |-> o, arg |-> a, num |-> n]

Options ==
    {Tok(o, "", 0) : o \in NoArg}
    \cup {Tok("f", a, 0) : a \in Formats \cup {"bogus"}}
    \cup {Tok("c", "ZIP", 0)}
    \cup {Tok("s", "", n) : n \in SizeArgs}
    \cup {Tok("z", a, 0) : a \in ShArgs}
    \cup {Tok("o", a, 0) : a \in {"sh.txt", "sh.png"}}
    \cup {Tok("e", "extract_dir", 0)}
    \cup {Tok("r", "", n) : n \in BlurArgs}
    \cup {Tok("y", "is_dir", 0)}
    \cup {Tok("p", "ld_dir", 0)}
    \cup {Tok("a", "dfg.png", 0)}
    \cup {Tok("k", "", 64)}
    \cup {Tok("x", "deploy_dir", 0)}

RECURSIVE SeqsUpTo(_, _)
SeqsUpTo(S, n) ==
    IF n = 0 THEN {<<>>}
    ELSE LET shorter == SeqsUpTo(S, n - 1)
         IN  shorter \cup {Append(s, x) : s \in shorter, x \in S}

\* positional argument: absent (num_args < 1) or given
Inputs == {"none", "given"}

\* a given argument that is no existing file matches "uv%u", "brdf%u" or neither
Names == {"uv", "brdf", "name"}

InvalidImage == [valid |-> FALSE, channels |-> 0, width |-> 0, height |-> 0]

DecodedImages ==
    {InvalidImage}
    \cup [valid : {TRUE}, channels : {3, 4}, width : 1..MaxSide, height : 1..MaxSide]

\* ------------------------------------------------- code outside main.cpp
\* isPOT (utilities.h): a power of two; what it answers for 0 is not fixed by
\* anything in the tree, so both answers are explored
isPOT(x) == IF x = 0 THEN potOfZero ELSE IsPow2(x)

\* the g_* globals before main runs (cmgen.h / cmgen.cpp)
InitGlobals ==
    [g_quiet |-> FALSE, g_format |-> "PNG", g_compression |-> "",
     g_output_size |-> 0,
     g_sh_compute |-> 0, g_sh_output |-> FALSE, g_sh_file |-> "SH_NONE",
     g_sh_filename |-> "", g_sh_irradiance |-> FALSE, g_sh_shader |-> FALSE,
     g_extract_dir |-> "", g_extract_faces |-> FALSE, g_extract_blur |-> 0,
     g_is_mipmap |-> FALSE, g_is_mipmap_dir |-> "",
     g_prefilter |-> FALSE, g_prefilter_dir |-> "",
     g_dfg |-> FALSE, g_dfg_filename |-> "", g_dfg_multiscatter |-> FALSE,
     g_num_samples |-> 1024,
     g_deploy |-> FALSE, g_deploy_dir |-> "",
     g_debug |-> FALSE, g_mirror |-> FALSE]

\* -------------------------------------------------------------------- Init
Init ==
    /\ pc = "parse"
    /\ args \in SeqsUpTo(Options, MaxArgs)
    /\ input \in Inputs
    /\ potOfZero \in BOOLEAN
    /\ g = InitGlobals
    /\ num_sh_bands = DefaultShBands
    /\ format_specified = FALSE
    /\ decoded = FALSE
    /\ inputImage = InvalidImage
    /\ images = <<>> /\ levels = <<>>
    /\ mirrorImages = <<>> /\ mirrorLevels = <<>>
    /\ blurImage = <<>> /\ blurred = <<>>
    /\ liveImages = {}
    /\ nextImage = 1
    /\ trace = <<>>
    /\ reported = {}
    /\ offendingRead = FALSE
    /\ optsRead = {} /\ formatNamed = ""
    /\ shParsed = FALSE /\ shInt = 0
    /\ rc = -1

\* --------------------------------------- handleCommandLineArgments (119-277)
\* getopt_long returns the next option, whose letter is o
Get(o) ==
    /\ pc = "parse"
    /\ args # <<>>
    /\ Head(args).opt = o
    /\ args' = Tail(args)
    /\ optsRead' = optsRead \cup {o}

arg == Head(args).arg
num == Head(args).num

Continue == pc' = "parse" /\ rc' = rc /\ reported' = reported
Exit(code, msgs) ==
    pc' = "exited" /\ rc' = code /\ reported' = reported \cup msgs

restOfRun == <<input, potOfZero, imageVars, heapVars, trace>>

\* default: / case 'h' (151-155) and case 'l' (156-159)
UsageOrLicense ==
    /\ \E o \in {"h", "?", "l"} : Get(o)
    /\ Exit(0, {})
    /\ UNCHANGED <<g, parseVars, ghostVars, restOfRun>>

\* case 'q' (160-162)
Quiet ==
    /\ Get("q")
    /\ g' = [g EXCEPT !.g_quiet = TRUE]
    /\ Continue
    /\ UNCHANGED <<parseVars, ghostVars, restOfRun>>

EncoderFormat(a) ==
    CASE a = "png"  -> "PNG"
      [] a = "hdr"  -> "HDR"
      [] a = "rgbm" -> "RGBM"
      [] a = "exr"  -> "EXR"
      [] a = "psd"  -> "PSD"
      [] a = "dds"  -> "DDS_LINEAR"

\* case 'f' (163-188)
Format ==
    /\ Get("f")
    /\ IF arg \in Formats
       THEN g' = [g EXCEPT !.g_format = EncoderFormat(arg)]
            /\ format_specified' = TRUE
       ELSE UNCHANGED <<g, format_specified>>
    /\ formatNamed' = IF arg \in Formats THEN arg ELSE formatNamed
    /\ Continue
    /\ UNCHANGED <<num_sh_bands, offendingRead, shParsed, shInt, restOfRun>>

\* case 'c' (189-191)
Compression ==
    /\ Get("c")
    /\ g' = [g EXCEPT !.g_compression = arg]
    /\ Continue
    /\ UNCHANGED <<parseVars, ghostVars, restOfRun>>

\* line 194 with the test dropped
SizeRejected_never(n) == FALSE

\* the test of line 194
SizeRejected(n) == ~isPOT(n)

\* case 's' (192-198)
Size ==
    /\ Get("s")
    /\ g' = [g EXCEPT !.g_output_size = num]
    /\ IF SizeRejected(num)
       THEN Exit(0, {"output size must be a power of two"})
       ELSE Continue
    /\ offendingRead' = (offendingRead \/ ~isPOT(num))
    /\ UNCHANGED <<parseVars, formatNamed, shParsed, shInt, restOfRun>>

\* std::stoi on the --sh argument: the texts of ShArgs that are integers
StoiOk(a) == a \in {"0", "2"}
Stoi(a) == CASE a = "0" -> 0 [] a = "2" -> 2

\* case 'z' (199-207)
Sh ==
    /\ Get("z")
    /\ g' = [g EXCEPT !.g_sh_compute = 1, !.g_sh_output = TRUE]
    /\ num_sh_bands' = IF StoiOk(arg) THEN Stoi(arg) ELSE num_sh_bands
    /\ shParsed' = (shParsed \/ StoiOk(arg))
    /\ shInt' = IF StoiOk(arg) THEN Stoi(arg) ELSE shInt
    /\ Continue
    /\ UNCHANGED <<format_specified, offendingRead, formatNamed, restOfRun>>

\* Path::getExtension() of the --sh-output names used here
Extension(a) == IF a = "sh.txt" THEN "txt" ELSE "png"

\* case 'o' (208-216)
ShOutput ==
    /\ Get("o")
    /\ g' = [g EXCEPT !.g_sh_compute = 1, !.g_sh_output = TRUE,
                      !.g_sh_filename = arg,
                      !.g_sh_file = IF Extension(arg) = "txt"
                                    THEN "SH_TEXT" ELSE "SH_CROSS"]
    /\ Continue
    /\ UNCHANGED <<parseVars, ghostVars, restOfRun>>

\* case 'i' (217-220)
ShIrradiance ==
    /\ Get("i")
    /\ g' = [g EXCEPT !.g_sh_compute = 1, !.g_sh_irradiance = TRUE]
    /\ Continue
    /\ UNCHANGED <<parseVars, ghostVars, restOfRun>>

\* case 'b' (221-225)
ShShader ==
    /\ Get("b")
    /\ g' = [g EXCEPT !.g_sh_compute = 1, !.g_sh_irradiance = TRUE,
                      !.g_sh_shader = TRUE]
    /\ Continue
    /\ UNCHANGED <<parseVars, ghostVars, restOfRun>>

\* case 'e' (226-229)
Extract ==
    /\ Get("e")
    /\ g' = [g EXCEPT !.g_extract_dir = arg, !.g_extract_faces = TRUE]
    /\ Continue
    /\ UNCHANGED <<parseVars, ghostVars, restOfRun>>

\* the test of line 232 (roughness in tenths)
BlurRejected(r) == r < 0 \/ r > 10

\* case 'r' (230-237)
ExtractBlur ==
    /\ Get("r")
    /\ g' = [g EXCEPT !.g_extract_blur = num]
    /\ IF BlurRejected(num)
       THEN Exit(0, {"roughness (blur) parameter must be between 0.0 and 1.0"})
       ELSE Continue
    /\ offendingRead' = (offendingRead \/ num < 0 \/ num > 10)
    /\ UNCHANGED <<parseVars, formatNamed, shParsed, shInt, restOfRun>>

\* case 'y' (238-241)
IsMipmap ==
    /\ Get("y")
    /\ g' = [g EXCEPT !.g_is_mipmap = TRUE, !.g_is_mipmap_dir = arg]
    /\ Continue
    /\ UNCHANGED <<parseVars, ghostVars, restOfRun>>

\* case 'p' (242-245)
Prefilter ==
    /\ Get("p")
    /\ g' = [g EXCEPT !.g_prefilter = TRUE, !.g_prefilter_dir = arg]
    /\ Continue
    /\ UNCHANGED <<parseVars, ghostVars, restOfRun>>

\* case 'a' (246-249)
Dfg ==
    /\ Get("a")
    /\ g' = [g EXCEPT !.g_dfg = TRUE, !.g_dfg_filename = arg]
    /\ Continue
    /\ UNCHANGED <<parseVars, ghostVars, restOfRun>>

\* case 'u' (250-252)
DfgMultiscatter ==
    /\ Get("u")
    /\ g' = [g EXCEPT !.g_dfg_multiscatter = TRUE]
    /\ Continue
    /\ UNCHANGED <<parseVars, ghostVars, restOfRun>>

\* case 'k' (253-255)
IblSamples ==
    /\ Get("k")
    /\ g' = [g EXCEPT !.g_num_samples = num]
    /\ Continue
    /\ UNCHANGED <<parseVars, ghostVars, restOfRun>>

\* case 'x' (256-259)
Deploy ==
    /\ Get("x")
    /\ g' = [g EXCEPT !.g_deploy = TRUE, !.g_deploy_dir = arg]
    /\ Continue
    /\ UNCHANGED <<parseVars, ghostVars, restOfRun>>

\* case 'd' (260-262)
Debug ==
    /\ Get("d")
    /\ g' = [g EXCEPT !.g_debug = TRUE]
    /\ Continue
    /\ UNCHANGED <<parseVars, ghostVars, restOfRun>>

\* case 'm' (263-265)
Mirror ==
    /\ Get("m")
    /\ g' = [g EXCEPT !.g_mirror = TRUE]
    /\ Continue
    /\ UNCHANGED <<parseVars, ghostVars, restOfRun>>

\* the option state on return (269-275)
Finish(gg) ==
    LET d == IF gg.g_deploy /\ ~format_specified
             THEN [gg EXCEPT !.g_format = "RGBM"] ELSE gg
    IN  IF num_sh_bands # 0 /\ d.g_sh_compute # 0
        THEN [d EXCEPT !.g_sh_compute = num_sh_bands] ELSE d

\* ------------------------------------------------------------ main (279-484)
\* where main goes after the parser returns (281-287)
AfterParse(gg) ==
    IF ~gg.g_dfg /\ input = "none" THEN "usage"
    ELSE IF gg.g_dfg THEN "dfg" ELSE "setup"

\* getopt_long returns -1: lines 269-276, then main 280-282
ParseEnd ==
    /\ pc = "parse"
    /\ args = <<>>
    /\ g' = Finish(g)
    /\ pc' = AfterParse(g')
    /\ UNCHANGED <<args, optsRead, parseVars, ghostVars, restOfRun, reported, rc>>

\* 282-285
PrintUsage ==
    /\ pc = "usage"
    /\ pc' = "returned"
    /\ rc' = 1
    /\ UNCHANGED <<args, optsRead, g, parseVars, ghostVars, restOfRun, reported>>

\* a call from main into the core: the callee, the cubemaps it is handed, the
\* length of images at the call and its size / dimension argument
Call(stage, consumed, n) ==
    [stage |-> stage, consumed |-> consumed, nimages |-> Len(images), dim |-> n]

\* g_output_size ? g_output_size : dflt (291, 370, 393, 467)
SizeOr(dflt) == IF g.g_output_size # 0 THEN g.g_output_size ELSE dflt

\* 287-294
IblLutDfg ==
    /\ pc = "dfg"
    /\ trace' = Append(trace, Call("iblLutDfg", <<>>, SizeOr(DefaultDfgSize)))
    /\ IF input = "none"
       THEN pc' = "returned" /\ rc' = 0
       ELSE pc' = "setup" /\ rc' = rc
    /\ UNCHANGED <<args, optsRead, input, potOfZero, g, parseVars, ghostVars,
                   imageVars, heapVars, reported>>

\* the --deploy block without line 303
DeployOptions_keepBands(gg) ==
    IF gg.g_deploy
    THEN [gg EXCEPT !.g_sh_shader = TRUE,
                    !.g_sh_irradiance = TRUE, !.g_sh_filename = "out_dir/sh.txt",
                    !.g_sh_file = "SH_TEXT", !.g_sh_output = TRUE,
                    !.g_extract_dir = gg.g_deploy_dir,
                    !.g_extract_faces = TRUE,
                    !.g_prefilter = TRUE,
                    !.g_prefilter_dir = gg.g_deploy_dir]
    ELSE gg

\* the --deploy block (299-317)
DeployOptions(gg) ==
    IF gg.g_deploy
    THEN [gg EXCEPT !.g_sh_compute = 3, !.g_sh_shader = TRUE,
                    !.g_sh_irradiance = TRUE, !.g_sh_filename = "out_dir/sh.txt",
                    !.g_sh_file = "SH_TEXT", !.g_sh_output = TRUE,
                    !.g_extract_dir = gg.g_deploy_dir,
                    !.g_extract_faces = TRUE,
                    !.g_prefilter = TRUE,
                    !.g_prefilter_dir = gg.g_deploy_dir]
    ELSE gg

\* the --debug block (319-324)
DebugOptions(gg) ==
    IF gg.g_debug /\ gg.g_prefilter /\ ~gg.g_is_mipmap
    THEN [gg EXCEPT !.g_is_mipmap = TRUE, !.g_is_mipmap_dir = gg.g_prefilter_dir]
    ELSE gg

\* 296-330
Setup ==
    /\ pc = "setup"
    /\ g' = DebugOptions(DeployOptions(g))
    /\ images' = <<>>
    /\ levels' = <<>>
    /\ pc' = "load"
    /\ UNCHANGED <<args, optsRead, input, potOfZero, parseVars, ghostVars,
                   imageVars, mirrorImages, mirrorLevels, blurImage, blurred, liveImages,
                   nextImage, trace, reported, rc>>

\* ------------------------------------------------------ cubemaps and images
\* CubemapUtils::create(image, dim): a cubemap of dimension dim viewing the
\* freshly allocated image id
create(id, dim) == [dim |-> dim, img |-> id, seamless |-> FALSE, writer |-> "none"]

\* a content-writing operation w on cm
Written(cm, w) == [cm EXCEPT !.seamless = FALSE, !.writer = w]

\* a makeSeamless call left out
makeSeamless_skip(cm) == cm

\* Cubemap::makeSeamless as main calls it after a write (365, 377, 408, 428)
makeSeamless(cm) == [cm EXCEPT !.seamless = TRUE]

\* the level pushed twice
PushLevel_twice(lv, cm) == Append(Append(lv, cm), cm)

\* images.push_back(std::move(temp)); levels.push_back(std::move(cml))
PushLevel(lv, cm) == Append(lv, cm)

\* the test of 368 always taken
IsEquirect_any(w, h) == TRUE

\* the tests of 353-354 and 368
IsCross(w, h) ==
    \/ isPOT(w) /\ w * 3 = h * 4
    \/ isPOT(h) /\ h * 3 = w * 4
IsEquirect(w, h) == w = 2 * h

\* 357 with the shorter side
CrossDim_shorter(w, h) == (IF h < w THEN h ELSE w) \div 4

\* 357
CrossDim(w, h) == Max(h, w) \div 4

\* the base level is in place: create, write, makeSeamless, push (363-367,
\* 375-379, 395-410)
BaseLevel(dim, writer) ==
    /\ levels' = PushLevel(levels, makeSeamless(Written(create(nextImage, dim), writer)))
    /\ images' = Append(images, nextImage)
    /\ liveImages' = liveImages \cup {nextImage}
    /\ nextImage' = nextImage + 1
    /\ trace' = Append(Append(trace, Call("create", <<>>, dim)),
                       Call(writer, <<>>, dim))
    /\ pc' = "mipmaps"
    /\ rc' = rc /\ reported' = reported
    /\ UNCHANGED <<mirrorImages, mirrorLevels, blurImage, blurred>>

\* iname.exists() (332) and the decoder's answer (337)
Decode(img) ==
    /\ pc = "load"
    /\ decoded' = TRUE
    /\ inputImage' = img

loadFrame == <<args, optsRead, input, potOfZero, g, parseVars, ghostVars>>

\* 338-341
DecodeInvalid ==
    /\ \E img \in DecodedImages : Decode(img) /\ ~img.valid
    /\ Exit(0, {"Unsupported image format!"})
    /\ UNCHANGED <<loadFrame, heapVars, trace>>

\* 342-346
DecodeWrongChannels ==
    /\ \E img \in DecodedImages :
          Decode(img) /\ img.valid /\ img.channels # 3
    /\ Exit(0, {"Input image must be RGB (3 channels)!"})
    /\ UNCHANGED <<loadFrame, heapVars, trace>>

\* 353-367
LoadCross ==
    /\ \E img \in DecodedImages :
          /\ Decode(img) /\ img.valid /\ img.channels = 3
          /\ IsCross(img.width, img.height)
          /\ BaseLevel(CrossDim(img.width, img.height), "copyImage")
    /\ UNCHANGED loadFrame

\* 368-379
LoadEquirect ==
    /\ \E img \in DecodedImages :
          /\ Decode(img) /\ img.valid /\ img.channels = 3
          /\ ~IsCross(img.width, img.height)
          /\ IsEquirect(img.width, img.height)
    /\ BaseLevel(SizeOr(DefaultCubemapSize), "equirectangularToCubemap")
    /\ UNCHANGED loadFrame

\* 380-387
AspectNotSupported ==
    /\ \E img \in DecodedImages :
          /\ Decode(img) /\ img.valid /\ img.channels = 3
          /\ ~IsCross(img.width, img.height)
          /\ ~IsEquirect(img.width, img.height)
    /\ Exit(0, {"Aspect ratio not supported"})
    /\ UNCHANGED <<loadFrame, heapVars, trace>>

\* the pattern the name selects (399-406)
Pattern(name) == IF name = "brdf" THEN "brdf" ELSE "generateUVGrid"

\* 388-411
Generate ==
    /\ pc = "load"
    /\ \E name \in Names : BaseLevel(SizeOr(DefaultCubemapSize), Pattern(name))
    /\ UNCHANGED <<loadFrame, imageVars>>

\* ---------------------------------------------------- generateMipmaps (414)
\* cmgen.cpp is not in the tree; section 4.3 of the specification: halve the
\* dimension, box-filter into a new level, makeSeamless, until dimension 1
RECURSIVE generateMipmaps(_, _, _)
generateMipmaps(lv, im, id) ==
    LET dim == lv[Len(lv)].dim
    IN  IF dim > 1
        THEN generateMipmaps(
                 Append(lv, makeSeamless(Written(create(id, dim \div 2), "downsample"))),
                 Append(im, id), id + 1)
        ELSE [levels |-> lv, images |-> im]

\* the blocks of main after generateMipmaps, in program order, and their guards
\* (416, 438, 446, 453, 460)
Stages == <<"mirror", "sh", "is_mipmap", "prefilter", "extract">>

Wanted(st) ==
    CASE st = "mirror"    -> g.g_mirror
      [] st = "sh"        -> g.g_sh_compute # 0
      [] st = "is_mipmap" -> g.g_is_mipmap
      [] st = "prefilter" -> g.g_prefilter
      [] st = "extract"   -> g.g_extract_faces

RECURSIVE NextFrom(_)
NextFrom(i) ==
    IF i > Len(Stages) THEN "ret_levels"
    ELSE IF Wanted(Stages[i]) THEN Stages[i] ELSE NextFrom(i + 1)

\* the block main enters after block number i (0: after generateMipmaps)
After(i) == NextFrom(i + 1)

mainFrame == <<args, optsRead, input, potOfZero, g, parseVars, ghostVars,
               imageVars, reported, rc>>

\* 413-414
GenerateMipmaps ==
    /\ pc = "mipmaps"
    /\ LET chain == generateMipmaps(levels, images, nextImage)
       IN  /\ levels' = chain.levels
           /\ images' = chain.images
           /\ liveImages' = liveImages \cup Range(chain.images)
           /\ nextImage' = nextImage + Len(chain.images) - Len(images)
    /\ trace' = Append(trace, Call("generateMipmaps", levels, 0))
    /\ pc' = After(0)
    /\ UNCHANGED <<mainFrame, mirrorImages, mirrorLevels, blurImage, blurred>>

\* the loop left after its first iteration
MirrorDone_first(n) == n >= 1

\* the range-for of 424 ends when n levels are mirrored
MirrorDone(n) == n = Len(levels)

\* one iteration of the loop 424-432
MirrorLevel ==
    /\ pc = "mirror"
    /\ Len(mirrorLevels) < Len(levels)
    /\ LET level == levels[Len(mirrorLevels) + 1]
           cml == makeSeamless(Written(create(nextImage, level.dim), "mirrorCubemap"))
       IN  /\ mirrorLevels' = Append(mirrorLevels, cml)
           /\ mirrorImages' = Append(mirrorImages, nextImage)
           /\ trace' = Append(Append(trace, Call("create", <<>>, level.dim)),
                              Call("mirrorCubemap", <<level>>, level.dim))
    /\ liveImages' = liveImages \cup {nextImage}
    /\ nextImage' = nextImage + 1
    /\ pc' = IF MirrorDone(Len(mirrorLevels')) THEN "mirror_swap" ELSE "mirror"
    /\ UNCHANGED <<mainFrame, images, levels, blurImage, blurred>>

\* 434-435
MirrorSwap ==
    /\ pc = "mirror_swap"
    /\ levels' = mirrorLevels /\ mirrorLevels' = levels
    /\ images' = mirrorImages /\ mirrorImages' = images
    /\ pc' = "mirror_dtor_images"
    /\ UNCHANGED <<mainFrame, blurImage, blurred, liveImages, nextImage, trace>>

\* 436: the block ends; its locals are destroyed in reverse order of
\* declaration (421-422), mirrorImages first
MirrorDestroyImages ==
    /\ pc = "mirror_dtor_images"
    /\ liveImages' = liveImages \ Range(mirrorImages)
    /\ mirrorImages' = <<>>
    /\ pc' = "mirror_dtor_levels"
    /\ UNCHANGED <<mainFrame, images, levels, mirrorLevels, blurImage, blurred,
                   nextImage, trace>>

\* 436: then mirrorLevels
MirrorDestroyLevels ==
    /\ pc = "mirror_dtor_levels"
    /\ mirrorLevels' = <<>>
    /\ pc' = After(1)
    /\ UNCHANGED <<mainFrame, images, levels, mirrorImages, blurImage, blurred,
                   liveImages, nextImage, trace>>

stageFrame == <<mainFrame, images, levels, mirrorImages, mirrorLevels,
                blurImage, blurred, liveImages, nextImage>>

\* 438-444
SphericalHarmonics ==
    /\ pc = "sh"
    /\ trace' = Append(trace, Call("sphericalHarmonics", <<levels[1]>>, g.g_sh_compute))
    /\ pc' = After(2)
    /\ UNCHANGED stageFrame

\* 446-451
IblMipmapPrefilter ==
    /\ pc = "is_mipmap"
    /\ trace' = Append(trace, Call("iblMipmapPrefilter", levels, 0))
    /\ pc' = After(3)
    /\ UNCHANGED stageFrame

\* 453-458
IblRoughnessPrefilter ==
    /\ pc = "prefilter"
    /\ trace' = Append(trace, Call("iblRoughnessPrefilter", levels, 0))
    /\ pc' = After(4)
    /\ UNCHANGED stageFrame

\* 460-462, 475-480
ExtractFaces ==
    /\ pc = "extract"
    /\ g.g_extract_blur = 0
    /\ trace' = Append(trace, Call("extractCubemapFaces", <<levels[1]>>, 0))
    /\ pc' = After(5)
    /\ UNCHANGED stageFrame

\* 460-474
BlurAndExtractFaces ==
    /\ pc = "extract"
    /\ g.g_extract_blur # 0
    /\ LET dim == SizeOr(levels[1].dim)
           cm == Written(create(nextImage, dim), "roughnessFilter")
       IN  /\ blurImage' = <<nextImage>>
           /\ blurred' = <<cm>>
           /\ trace' = trace \o <<Call("create", <<>>, dim),
                                  Call("roughnessFilter", levels, dim),
                                  Call("extractCubemapFaces", <<cm>>, 0)>>
    /\ liveImages' = liveImages \cup {nextImage}
    /\ nextImage' = nextImage + 1
    /\ pc' = "blur_dtor_cubemap"
    /\ UNCHANGED <<mainFrame, images, levels, mirrorImages, mirrorLevels>>

\* 475: the block ends; blurred (469) is destroyed before image (468)
BlurDestroyCubemap ==
    /\ pc = "blur_dtor_cubemap"
    /\ blurred' = <<>>
    /\ pc' = "blur_dtor_image"
    /\ UNCHANGED <<mainFrame, images, levels, mirrorImages, mirrorLevels,
                   blurImage, liveImages, nextImage, trace>>

BlurDestroyImage ==
    /\ pc = "blur_dtor_image"
    /\ liveImages' = liveImages \ Range(blurImage)
    /\ blurImage' = <<>>
    /\ pc' = After(5)
    /\ UNCHANGED <<mainFrame, images, levels, mirrorImages, mirrorLevels,
                   blurred, nextImage, trace>>

\* 483-484: main returns; levels (330) is destroyed before images (327)
ReturnDestroyLevels ==
    /\ pc = "ret_levels"
    /\ levels' = <<>>
    /\ pc' = "ret_images"
    /\ UNCHANGED <<mainFrame, images, mirrorImages, mirrorLevels, blurImage,
                   blurred, liveImages, nextImage, trace>>

ReturnDestroyImages ==
    /\ pc = "ret_images"
    /\ liveImages' = liveImages \ Range(images)
    /\ images' = <<>>
    /\ pc' = "returned"
    /\ rc' = 0
    /\ UNCHANGED <<args, optsRead, input, potOfZero, g, parseVars, ghostVars,
                   imageVars, reported, levels, mirrorImages, mirrorLevels, blurImage,
                   blurred, nextImage, trace>>

\* -------------------------------------------------------------------- Next
Next ==
    \/ UsageOrLicense \/ Quiet \/ Format \/ Compression \/ Size \/ Sh
    \/ ShOutput \/ ShIrradiance \/ ShShader \/ Extract \/ ExtractBlur
    \/ IsMipmap \/ Prefilter \/ Dfg \/ DfgMultiscatter \/ IblSamples
    \/ Deploy \/ Debug \/ Mirror \/ ParseEnd
    \/ PrintUsage \/ IblLutDfg \/ Setup
    \/ DecodeInvalid \/ DecodeWrongChannels \/ LoadCross \/ LoadEquirect
    \/ AspectNotSupported \/ Generate
    \/ GenerateMipmaps
    \/ MirrorLevel \/ MirrorSwap \/ MirrorDestroyImages \/ MirrorDestroyLevels
    \/ SphericalHarmonics \/ IblMipmapPrefilter \/ IblRoughnessPrefilter
    \/ ExtractFaces \/ BlurAndExtractFaces \/ BlurDestroyCubemap
    \/ BlurDestroyImage
    \/ ReturnDestroyLevels \/ ReturnDestroyImages

Spec == Init /\ [][Next]_vars

\* ================================================================== claims
Calls(stage) == {i \in DOMAIN trace : trace[i].stage = stage}
Called(stage) == Calls(stage) # {}

\* the content writers and the consumers C1 names
MainWriters == {"copyImage", "equirectangularToCubemap", "generateUVGrid",
                "brdf", "mirrorCubemap"}
Consumers == {"generateMipmaps", "sphericalHarmonics", "iblMipmapPrefilter",
              "iblRoughnessPrefilter", "roughnessFilter"}

\* the stages that write output files
OutputStages == {"iblLutDfg", "sphericalHarmonics", "iblMipmapPrefilter",
                 "iblRoughnessPrefilter", "extractCubemapFaces"}

\* C1: every cubemap handed to generateMipmaps, sphericalHarmonics,
\* iblMipmapPrefilter, iblRoughnessPrefilter or roughnessFilter whose content
\* was written by copyImage, equirectangularToCubemap, generateUVGrid, brdf or
\* mirrorCubemap has had makeSeamless called on it after that write.
C1_SeamlessBeforeConsumed ==
    \A i \in DOMAIN trace :
        trace[i].stage \in Consumers =>
            \A k \in DOMAIN trace[i].consumed :
                trace[i].consumed[k].writer \in MainWriters =>
                    trace[i].consumed[k].seamless

\* a roughness prefilter over a whole mirrored chain of more than one level
C1_Witness ==
    \E i \in Calls("iblRoughnessPrefilter") :
        /\ Len(trace[i].consumed) > 1
        /\ \A k \in DOMAIN trace[i].consumed :
              trace[i].consumed[k].writer = "mirrorCubemap"

\* C2: when decoding the input fails, no output-writing stage has executed in
\* the run, at any earlier or later point.
C2_NoOutputOnDecodeFailure ==
    (decoded /\ ~inputImage.valid) =>
        \A i \in DOMAIN trace : trace[i].stage \notin OutputStages

\* an option the parser rejects
Offending(t) ==
    \/ t.opt = "s" /\ ~isPOT(t.num)
    \/ t.opt = "r" /\ (t.num < 0 \/ t.num > 10)

ParseMessages == {"output size must be a power of two",
                  "roughness (blur) parameter must be between 0.0 and 1.0"}

C4_CreatePowerOfTwo ==
    \A i \in Calls("create") : trace[i].dim >= 1 /\ IsPow2(trace[i].dim)

\* --size=0 was accepted and the cubemap was created with the default 256
C4_Witness ==
    /\ "s" \in optsRead /\ g.g_output_size = 0
    /\ \E i \in Calls("create") : trace[i].dim = DefaultCubemapSize

ValidRGB == decoded /\ inputImage.valid /\ inputImage.channels = 3

EquirectShape == inputImage.width = 2 * inputImage.height

CrossShape ==
    \/ inputImage.width * 3 = inputImage.height * 4 /\ IsPow2(inputImage.width)
    \/ inputImage.height * 3 = inputImage.width * 4 /\ IsPow2(inputImage.height)

\* C5: equirectangularToCubemap runs only on a valid 3-channel image with
\* width = 2*height, copyImage only on a valid 3-channel image of ratio 4:3 or
\* 3:4 whose longer side is a power of two, never both; any other decoded
\* image ends the run with no cubemap created, mipmapped or consumed.
C5_InputClassification ==
    /\ Called("equirectangularToCubemap") => ValidRGB /\ EquirectShape
    /\ Called("copyImage") => ValidRGB /\ CrossShape
    /\ ~(EquirectShape /\ CrossShape /\ ValidRGB)
    /\ (decoded /\ ~(ValidRGB /\ (EquirectShape \/ CrossShape))) =>
          /\ pc = "exited"
          /\ levels = <<>> /\ images = <<>>
          /\ \A i \in DOMAIN trace : trace[i].stage = "iblLutDfg"

\* a vertical cross was copied
C5_Witness ==
    Called("copyImage") /\ inputImage.height > inputImage.width

\* the positions of main at which the mip chain exists
ChainPcs == {"mirror", "mirror_swap", "mirror_dtor_images", "mirror_dtor_levels",
             "sh", "is_mipmap", "prefilter", "extract", "blur_dtor_cubemap",
             "blur_dtor_image", "ret_levels"}

\* lv is the complete chain of a power-of-two dimension
CompleteChain(lv) ==
    /\ lv # <<>>
    /\ IsPow2(lv[1].dim)
    /\ Len(lv) = Log2(lv[1].dim) + 1
    /\ \A k \in DOMAIN lv : lv[k].dim = lv[1].dim \div 2^(k - 1)
    /\ lv[Len(lv)].dim = 1

\* C6: generateMipmaps is called with exactly one seamless level of
\* power-of-two dimension D and one image, and from its return on the chain
\* has log2(D)+1 levels, level k of dimension D/2^k, the last of dimension 1.
C6_MipChain ==
    /\ \A i \in Calls("generateMipmaps") :
          /\ Len(trace[i].consumed) = 1
          /\ trace[i].nimages = 1
          /\ trace[i].consumed[1].seamless
          /\ IsPow2(trace[i].consumed[1].dim)
    /\ pc \in ChainPcs =>
          /\ Called("generateMipmaps")
          /\ CompleteChain(levels)
          /\ Len(images) = Len(levels)

\* a base level of dimension 1, whose chain is the base level alone
C6_Witness ==
    /\ pc = "ret_levels"
    /\ Len(levels) = 1
    /\ levels[1].dim = 1

\* the program order of the consuming stages
Rank(stage) ==
    CASE stage = "sphericalHarmonics"    -> 1
      [] stage = "iblMipmapPrefilter"    -> 2
      [] stage = "iblRoughnessPrefilter" -> 3
      [] stage = "roughnessFilter"       -> 4
      [] stage = "extractCubemapFaces"   -> 5
      [] OTHER                           -> 0

\* C7: sphericalHarmonics, iblMipmapPrefilter, iblRoughnessPrefilter and
\* roughnessFilter / extractCubemapFaces each run at most once, in that order,
\* after generateMipmaps has returned, on the complete chain, and with --mirror
\* on the mirrored chain after every level has been mirrored.
C7_StageOrder ==
    /\ \A i, j \in DOMAIN trace :
          (i < j /\ Rank(trace[i].stage) > 0 /\ Rank(trace[j].stage) > 0)
              => Rank(trace[i].stage) < Rank(trace[j].stage)
    /\ \A i \in DOMAIN trace :
          Rank(trace[i].stage) > 0 =>
              \E m \in Calls("generateMipmaps") :
                  LET D == trace[m].consumed[1].dim
                      passed == trace[i].consumed
                  IN  /\ m < i
                      /\ Rank(trace[i].stage) \in 2..4 =>
                            CompleteChain(passed) /\ passed[1].dim = D
                      /\ Rank(trace[i].stage) = 1 => passed[1].dim = D
                      /\ (g.g_mirror /\ Rank(trace[i].stage) < 5) =>
                            /\ \A k \in DOMAIN passed :
                                  passed[k].writer = "mirrorCubemap"
                            /\ Cardinality({n \in Calls("mirrorCubemap") : n < i})
                                   = Log2(D) + 1
                            /\ mirrorLevels = <<>>

\* all four stages ran in one run, on a chain of more than one level
C7_Witness ==
    /\ Called("sphericalHarmonics") /\ Called("iblMipmapPrefilter")
    /\ Called("iblRoughnessPrefilter") /\ Called("extractCubemapFaces")
    /\ Len(levels) > 1

\* the encoder format each supported --format name stands for
FormatOf(name) ==
    CASE name = "png"  -> "PNG"
      [] name = "hdr"  -> "HDR"
      [] name = "rgbm" -> "RGBM"
      [] name = "exr"  -> "EXR"
      [] name = "psd"  -> "PSD"
      [] name = "dds"  -> "DDS_LINEAR"

C9_ShBands ==
    ~g.g_deploy =>
        /\ \A i \in Calls("sphericalHarmonics") :
              trace[i].dim = IF shParsed THEN shInt ELSE DefaultShBands
        /\ (pc = "returned" /\ Called("generateMipmaps")) =>
              (Called("sphericalHarmonics") <=> optsRead \cap {"z", "o", "i", "b"} # {})

\* the cubemaps that exist
LiveCubemaps == Range(levels) \cup Range(mirrorLevels) \cup Range(blurred)

\* C10: every live Cubemap views a live Image, and levels[k] views images[k].
C10_ViewsLive ==
    /\ \A cm \in LiveCubemaps : cm.img \in liveImages
    /\ levels # <<>> =>
          /\ Len(levels) = Len(images)
          /\ \A k \in DOMAIN levels : levels[k].img = images[k]

====
